---------------------------- MODULE Spec2Model ----------------------------
(***************************************************************************)
(* Model of goldmark's HTML renderer (renderer/html/html.go): the default  *)
(* Text Engine (defaultWriter.RawWrite / defaultWriter.Write) and the      *)
(* per-kind dispatch of Renderer.Render.                                   *)
(*                                                                         *)
(* Bytes are integers 0..255 and byte slices are sequences of them.  A Go  *)
(* slice expression s[a:b] is Slice(s, a, b) and s[i] is At(s, i), both    *)
(* 0-based as in the source.  A run-time panic (index out of range) is the *)
(* value fault = TRUE of the call's result.                                *)
(***************************************************************************)
EXTENDS Integers, Sequences, FiniteSets, TLC

VARIABLES op, source, node, entering, config, out, fault, status, err

vars == <<op, source, node, entering, config, out, fault, status, err>>

-----------------------------------------------------------------------------
(* Bytes and byte strings *)

\* The printable ASCII characters in code order, space (32) to tilde (126); the
\* entry GRAVE holds the place of the grave accent (96).
AsciiPrintable ==
  << " ", "!", "\"", "#", "$", "%", "&", "'", "(", ")", "*", "+", ",", "-", ".", "/",
     "0", "1", "2", "3", "4", "5", "6", "7", "8", "9", ":", ";", "<", "=", ">", "?",
     "@", "A", "B", "C", "D", "E", "F", "G", "H", "I", "J", "K", "L", "M", "N", "O",
     "P", "Q", "R", "S", "T", "U", "V", "W", "X", "Y", "Z", "[", "\\", "]", "^", "_",
     "GRAVE", "a", "b", "c", "d", "e", "f", "g", "h", "i", "j", "k", "l", "m", "n", "o",
     "p", "q", "r", "s", "t", "u", "v", "w", "x", "y", "z", "{", "|", "}", "~" >>

\* The byte value of each printable ASCII character.
AsciiCode ==
  [c \in {AsciiPrintable[i] : i \in 1..Len(AsciiPrintable)} |->
     31 + (CHOOSE i \in 1..Len(AsciiPrintable) : AsciiPrintable[i] = c)]

\* The byte value of a one-character string.
Ch(c) == AsciiCode[c]

\* The byte string of a tuple of one-character strings.
Str(cs) == [i \in 1..Len(cs) |-> Ch(cs[i])]

\* '\n'
NL == 10

\* Go's s[a:b] and s[i] on a byte slice (0-based, half-open).
Slice(s, a, b) == SubSeq(s, a + 1, b)
At(s, i) == s[i + 1]

RECURSIVE Concat(_)
Concat(ss) == IF ss = <<>> THEN <<>> ELSE Head(ss) \o Concat(Tail(ss))

-----------------------------------------------------------------------------
(* Byte classes of package util, used by Write *)

IsNumeric(c) == c >= Ch("0") /\ c <= Ch("9")

IsHexDecimal(c) ==
  \/ IsNumeric(c)
  \/ (c >= Ch("a") /\ c <= Ch("f"))
  \/ (c >= Ch("A") /\ c <= Ch("F"))

IsAlphaNumeric(c) ==
  \/ IsNumeric(c)
  \/ (c >= Ch("a") /\ c <= Ch("z"))
  \/ (c >= Ch("A") /\ c <= Ch("Z"))

\* ASCII punctuation: ! to /, : to @, [ to grave accent, { to ~.
IsPunct(c) ==
  \/ (c >= 33 /\ c <= 47)
  \/ (c >= 58 /\ c <= 64)
  \/ (c >= 91 /\ c <= 96)
  \/ (c >= 123 /\ c <= 126)

\* The Entity Table: the named entities the specification gives ("amp",
\* "quot"), each with its decoded characters; <<>> when the name is unknown.
LookUpHTML5EntityByName(name) ==
  CASE name = Str(<<"a", "m", "p">>) -> [ok |-> TRUE, Characters |-> <<Ch("&")>>]
    [] name = Str(<<"q", "u", "o", "t">>) -> [ok |-> TRUE, Characters |-> <<Ch("\"")>>]
    [] OTHER -> [ok |-> FALSE, Characters |-> <<>>]

\* util.ToValidRune: a rune that is no valid code point (zero, negative, a
\* surrogate, above U+10FFFF) becomes the replacement character U+FFFD.
ToValidRune(r) ==
  IF r <= 0 \/ (r >= 55296 /\ r <= 57343) \/ r > 1114111 THEN 65533 ELSE r

-----------------------------------------------------------------------------
(* The Text Engine *)

\* htmlEscaleTable[b]: the replacement of byte b, <<>> for nil.
htmlEscaleTable(b) ==
  CASE b = 34 -> Str(<<"&", "q", "u", "o", "t", ";">>)
    [] b = 38 -> Str(<<"&", "a", "m", "p", ";">>)
    [] b = 60 -> Str(<<"&", "l", "t", ";">>)
    [] b = 62 -> Str(<<"&", "g", "t", ";">>)
    [] OTHER -> <<>>

\* util.BufWriter.WriteRune: the UTF-8 encoding of a valid rune.
WriteRune(r) ==
  IF r < 128 THEN <<r>>
  ELSE IF r < 2048 THEN <<192 + (r \div 64), 128 + (r % 64)>>
  ELSE IF r < 65536 THEN
    <<224 + (r \div 4096), 128 + ((r \div 64) % 64), 128 + (r % 64)>>
  ELSE
    <<240 + (r \div 262144), 128 + ((r \div 4096) % 64),
      128 + ((r \div 64) % 64), 128 + (r % 64)>>

\* escapeRune(writer, r): r is an int32; byte(r) is its low eight bits.
escapeRune(r) ==
  IF r < 256 /\ htmlEscaleTable(r % 256) # <<>>
  THEN htmlEscaleTable(r % 256)
  ELSE WriteRune(ToValidRune(r))

\* The scan of defaultWriter.RawWrite at index i, with a pending run of n
\* bytes and the bytes w written so far; the result is w and n at the end of
\* the loop.
RECURSIVE RawWriteLoop(_, _, _, _)
RawWriteLoop(src, i, n, w) ==
  IF i < Len(src) THEN
    LET v == htmlEscaleTable(At(src, i)) IN
    IF v # <<>>
    THEN RawWriteLoop(src, i + 1, 0, w \o Slice(src, i - n, i) \o v)
    ELSE RawWriteLoop(src, i + 1, n + 1, w)
  ELSE [w |-> w, n |-> n]

\* RawWrite without the flush of the trailing run.
RawWriteNoTrailingFlush(src) == RawWriteLoop(src, 0, 0, <<>>).w

\* defaultWriter.RawWrite: the scan, then the flush of the trailing run.
RawWrite(src) ==
  LET r == RawWriteLoop(src, 0, 0, <<>>)
      l == Len(src)
  IN  IF r.n # 0 THEN r.w \o Slice(src, l - r.n, l) ELSE r.w

\* The bytes that satisfy util.IsHexDecimal, util.IsNumeric and
\* util.IsAlphaNumeric: the predicates as readWhile takes them.
HexDecimalBytes == {c \in 0..255 : IsHexDecimal(c)}
NumericBytes == {c \in 0..255 : IsNumeric(c)}
AlphaNumericBytes == {c \in 0..255 : IsAlphaNumeric(c)}

\* readWhile(source, [2]int{from, to}, pred): the index reached and whether
\* any byte satisfied pred (pred is the set of the bytes that satisfy it).
RECURSIVE readWhile(_, _, _, _, _)
readWhile(src, j, to, pred, ok) ==
  IF j < to /\ At(src, j) \in pred
  THEN readWhile(src, j + 1, to, pred, TRUE)
  ELSE [j |-> j, ok |-> ok]

\* The value of an ASCII digit or letter as strconv.ParseUint reads it.
DigitValue(c) ==
  IF IsNumeric(c) THEN c - Ch("0")
  ELSE IF c >= Ch("a") /\ c <= Ch("z") THEN c - Ch("a") + 10
  ELSE c - Ch("A") + 10

\* strconv.ParseUint's digit loop for bitSize 32.  The uint64 accumulator is
\* kept as two 16-bit halves, n = hi * 2^16 + lo.  A digit not below the base
\* is a syntax error (value 0); a value above 2^32 - 1 is a range error (value
\* 2^32 - 1).
RECURSIVE ParseDigits(_, _, _, _, _)
ParseDigits(s, k, base, hi, lo) ==
  IF k > Len(s) THEN [hi |-> hi, lo |-> lo]
  ELSE
    LET d == DigitValue(s[k])
        lo1 == lo * base + d
        hi1 == hi * base + (lo1 \div 65536)
    IN  IF d >= base THEN [hi |-> 0, lo |-> 0]
        ELSE IF hi1 > 65535 THEN [hi |-> 65535, lo |-> 65535]
        ELSE ParseDigits(s, k + 1, base, hi1, lo1 % 65536)

\* strconv.ParseUint(s, base, 32) on a non-empty string of digits; base 0
\* takes the base from the prefix, and a leading "0" selects base 8.
ParseUint(s, base) ==
  IF base = 0
  THEN IF s[1] = Ch("0") THEN ParseDigits(Tail(s), 1, 8, 0, 0)
       ELSE ParseDigits(s, 1, 10, 0, 0)
  ELSE ParseDigits(s, 1, base, 0, 0)

\* rune(v): the conversion of the uint64 v (below 2^32) to int32.
ToRune(v) ==
  IF v.hi >= 32768 THEN (v.hi - 65536) * 65536 + v.lo ELSE v.hi * 65536 + v.lo

\* The limit of decimal digits: the test i-start < 8 of Write.
DecimalDigitLimit == 8

\* defaultWriter.Write: the loop at index i, with n the start of the pending
\* run, the escaped flag and the bytes w written so far.  The result is the
\* bytes written and whether the call panicked.
RECURSIVE WriteLoop(_, _, _, _, _)
WriteLoop(src, i, n, escaped, w) ==
  LET limit == Len(src) IN
  IF ~(i < limit) THEN
    \* d.RawWrite(writer, source[n:len(source)])
    IF n > limit THEN [out |-> w, fault |-> TRUE]
    ELSE [out |-> w \o RawWrite(Slice(src, n, limit)), fault |-> FALSE]
  ELSE
    LET c == At(src, i)
        pos == i
        next == i + 1
        nnext == next + 1
        \* the fall through of the '&' case: i = next - 1, then the tail of
        \* the loop body with c = '&' (not a backslash), then i++
        noRef == WriteLoop(src, next, n, FALSE, w)
    IN
    IF escaped /\ IsPunct(c) THEN
      \* d.RawWrite(writer, source[n:i-1]); n = i; escaped = false; continue
      IF n > i - 1 THEN [out |-> w, fault |-> TRUE]
      ELSE WriteLoop(src, i + 1, i, FALSE, w \o RawWrite(Slice(src, n, i - 1)))
    ELSE IF c = Ch("&") THEN
      IF next < limit /\ At(src, next) = Ch("#") THEN
        \* nc := source[nnext] is read before nnext is compared with limit
        IF ~(nnext < limit) THEN [out |-> w, fault |-> TRUE]
        ELSE
          LET nc == At(src, nnext) IN
          IF (nnext < limit /\ nc = Ch("x")) \/ nc = Ch("X") THEN
            LET start == nnext + 1
                rw == readWhile(src, start, limit, HexDecimalBytes, FALSE)
            IN  IF rw.ok /\ rw.j < limit /\ At(src, rw.j) = Ch(";")
                THEN LET v == ParseUint(Slice(src, start, rw.j), 16) IN
                     WriteLoop(src, rw.j + 1, rw.j + 1, escaped,
                               w \o RawWrite(Slice(src, n, pos)) \o escapeRune(ToRune(v)))
                ELSE noRef
          ELSE IF nc >= Ch("0") /\ nc <= Ch("9") THEN
            LET start == nnext
                rw == readWhile(src, start, limit, NumericBytes, FALSE)
            IN  IF /\ rw.ok /\ rw.j < limit /\ rw.j - start < DecimalDigitLimit
                   /\ At(src, rw.j) = Ch(";")
                THEN LET v == ParseUint(Slice(src, start, rw.j), 0) IN
                     WriteLoop(src, rw.j + 1, rw.j + 1, escaped,
                               w \o RawWrite(Slice(src, n, pos)) \o escapeRune(ToRune(v)))
                ELSE noRef
          ELSE noRef
      ELSE
        LET start == next
            rw == readWhile(src, start, limit, AlphaNumericBytes, FALSE)
        IN  IF rw.ok /\ rw.j < limit /\ At(src, rw.j) = Ch(";")
            THEN LET entity == LookUpHTML5EntityByName(Slice(src, start, rw.j)) IN
                 IF entity.ok
                 THEN WriteLoop(src, rw.j + 1, rw.j + 1, escaped,
                                w \o RawWrite(Slice(src, n, pos))
                                  \o RawWrite(entity.Characters))
                 ELSE noRef
            ELSE noRef
    ELSE IF c = Ch("\\") THEN WriteLoop(src, i + 1, n, TRUE, w)
    ELSE WriteLoop(src, i + 1, n, FALSE, w)

Write(src) == WriteLoop(src, 0, 0, FALSE, <<>>)

-----------------------------------------------------------------------------
(* Helpers of the Tree Renderer that live outside html.go *)

\* util.EscapeHTML: every byte through the Escape Table.
RECURSIVE EscapeHTML(_)
EscapeHTML(s) ==
  IF s = <<>> THEN <<>>
  ELSE (IF htmlEscaleTable(Head(s)) # <<>> THEN htmlEscaleTable(Head(s)) ELSE <<Head(s)>>)
       \o EscapeHTML(Tail(s))

\* util.URLEscape on destinations of letters, digits, ".", "/", ":", "@" and
\* spaces: a space becomes %20 and the other bytes are kept.
RECURSIVE URLEscape(_, _)
URLEscape(s, resolveReference) ==
  IF s = <<>> THEN <<>>
  ELSE (IF Head(s) = Ch(" ") THEN Str(<<"%", "2", "0">>) ELSE <<Head(s)>>)
       \o URLEscape(Tail(s), resolveReference)

\* bytes.ToLower on ASCII.
ToLower(s) ==
  [i \in 1..Len(s) |-> IF s[i] >= Ch("A") /\ s[i] <= Ch("Z") THEN s[i] + 32 ELSE s[i]]

\* bytes.HasPrefix and bytes.HasSuffix.
HasPrefix(s, p) == Len(s) >= Len(p) /\ SubSeq(s, 1, Len(p)) = p
HasSuffix(s, p) == Len(s) >= Len(p) /\ SubSeq(s, Len(s) - Len(p) + 1, Len(s)) = p

\* fmt's %d of a non-negative int.
RECURSIVE FormatInt(_)
FormatInt(k) ==
  IF k < 10 THEN <<Ch("0") + k>> ELSE FormatInt(k \div 10) \o <<Ch("0") + (k % 10)>>

-----------------------------------------------------------------------------
(* The Tree Renderer *)

WalkContinue == "WalkContinue"
WalkSkipChildren == "WalkSkipChildren"
WalkStop == "WalkStop"
NotSupported == "NotSupported"
NoError == "nil"

\* The result of a render function that returned: the bytes written and the
\* walk status.
Done(w, st) == [out |-> w, status |-> st, fault |-> FALSE]

\* The result of a render function that panicked after writing w.
Panicked(w) == [out |-> w, status |-> "none", fault |-> TRUE]

\* Renderer.writeLines: every line through RawWrite.
RECURSIVE writeLines(_)
writeLines(lines) ==
  IF lines = <<>> THEN <<>> ELSE RawWrite(Head(lines)) \o writeLines(Tail(lines))

renderDocument(n, e, cfg) == Done(<<>>, WalkContinue)

\* "0123456"[n.Level] panics for a level outside 0..6.
renderHeading(n, e, cfg) ==
  IF n.Level < 0 \/ n.Level > 6
  THEN Panicked(IF e THEN Str(<<"<", "h">>) ELSE Str(<<"<", "/", "h">>))
  ELSE IF e THEN
    Done(Str(<<"<", "h">>) \o <<Ch("0") + n.Level>>
           \o (IF n.hasID
               THEN Str(<<" ", "i", "d", "=", "\"">>) \o n.ID \o Str(<<"\"">>)
               ELSE <<>>)
           \o Str(<<">">>),
         WalkContinue)
  ELSE Done(Str(<<"<", "/", "h">>) \o <<Ch("0") + n.Level>> \o Str(<<">">>) \o <<NL>>,
            WalkContinue)

renderBlockquote(n, e, cfg) ==
  IF e
  THEN Done(Str(<<"<", "b", "l", "o", "c", "k", "q", "u", "o", "t", "e", ">">>) \o <<NL>>,
            WalkContinue)
  ELSE Done(Str(<<"<", "/", "b", "l", "o", "c", "k", "q", "u", "o", "t", "e", ">">>) \o <<NL>>,
            WalkContinue)

PreCodeOpen == Str(<<"<", "p", "r", "e", ">", "<", "c", "o", "d", "e">>)
PreCodeClose ==
  Str(<<"<", "/", "c", "o", "d", "e", ">", "<", "/", "p", "r", "e", ">">>) \o <<NL>>
ClassLanguage ==
  Str(<<" ", "c", "l", "a", "s", "s", "=", "\"", "l", "a", "n", "g", "u", "a", "g", "e", "-">>)

renderCodeBlock(n, e, cfg) ==
  IF e THEN Done(PreCodeOpen \o Str(<<">">>) \o writeLines(n.Lines), WalkContinue)
  ELSE Done(PreCodeClose, WalkContinue)

\* The index of the first space of info, len(info) when it has none.
RECURSIVE FirstSpace(_, _)
FirstSpace(info, i) ==
  IF i < Len(info) /\ At(info, i) # Ch(" ") THEN FirstSpace(info, i + 1) ELSE i

\* renderFencedCodeBlock from r.Writer.Write(w, language) on, lw being what
\* that call wrote and whether it panicked.
fencedAfterLanguage(n, lw) ==
  IF lw.fault THEN Panicked(PreCodeOpen \o ClassLanguage \o lw.out)
  ELSE Done(PreCodeOpen \o ClassLanguage \o lw.out \o Str(<<"\"">>)
              \o Str(<<">">>) \o writeLines(n.Lines),
            WalkContinue)

renderFencedCodeBlock(n, e, cfg) ==
  IF e THEN
    IF n.hasInfo
    THEN fencedAfterLanguage(n, Write(Slice(n.Info, 0, FirstSpace(n.Info, 0))))
    ELSE Done(PreCodeOpen \o Str(<<">">>) \o writeLines(n.Lines), WalkContinue)
  ELSE Done(PreCodeClose, WalkContinue)

renderHTMLBlock(n, e, cfg) ==
  IF e THEN Done(Concat(n.Lines), WalkContinue)
  ELSE Done(IF n.hasClosure THEN n.ClosureLine ELSE <<>>, WalkContinue)

renderList(n, e, cfg) ==
  LET tag == IF n.ordered THEN Str(<<"o", "l">>) ELSE Str(<<"u", "l">>) IN
  IF e THEN
    IF n.ordered /\ n.Start # 1
    THEN Done(Str(<<"<">>) \o tag
                \o Str(<<" ", "s", "t", "a", "r", "t", "=", "\"">>) \o FormatInt(n.Start)
                \o Str(<<"\"", ">">>) \o <<NL>>,
              WalkContinue)
    ELSE Done(Str(<<"<">>) \o tag \o Str(<<">">>) \o <<NL>>, WalkContinue)
  ELSE Done(Str(<<"<", "/">>) \o tag \o Str(<<">">>) \o <<NL>>, WalkContinue)

\* renderListItem with the newline written whenever the first child is not a
\* TextBlock, an item without children included.
renderListItemNoNilCheck(n, e, cfg) ==
  IF e THEN
    Done(Str(<<"<", "l", "i", ">">>)
           \o (IF n.firstChild # "TextBlock" THEN <<NL>> ELSE <<>>),
         WalkContinue)
  ELSE Done(Str(<<"<", "/", "l", "i", ">">>) \o <<NL>>, WalkContinue)

\* n.firstChild is the kind of n.FirstChild(), "nil" when n has no children.
renderListItem(n, e, cfg) ==
  IF e THEN
    Done(Str(<<"<", "l", "i", ">">>)
           \o (IF n.firstChild # "nil"
               THEN IF n.firstChild # "TextBlock" THEN <<NL>> ELSE <<>>
               ELSE <<>>),
         WalkContinue)
  ELSE Done(Str(<<"<", "/", "l", "i", ">">>) \o <<NL>>, WalkContinue)

renderParagraph(n, e, cfg) ==
  IF e THEN Done(Str(<<"<", "p", ">">>), WalkContinue)
  ELSE Done(Str(<<"<", "/", "p", ">">>) \o <<NL>>, WalkContinue)

renderTextBlock(n, e, cfg) ==
  IF ~e
  THEN Done(IF n.hasNextSibling /\ n.firstChild # "nil" THEN <<NL>> ELSE <<>>, WalkContinue)
  ELSE Done(<<>>, WalkContinue)

renderThemanticBreak(n, e, cfg) ==
  IF ~e THEN Done(<<>>, WalkContinue)
  ELSE IF cfg.XHTML
  THEN Done(Str(<<"<", "h", "r", " ", "/", ">">>) \o <<NL>>, WalkContinue)
  ELSE Done(Str(<<"<", "h", "r", ">">>) \o <<NL>>, WalkContinue)

AutoLinkEmail == "AutoLinkEmail"
AutoLinkURL == "AutoLinkURL"
Mailto == Str(<<"m", "a", "i", "l", "t", "o", ":">>)
AHrefOpen == Str(<<"<", "a", " ", "h", "r", "e", "f", "=", "\"">>)
TitleOpen == Str(<<" ", "t", "i", "t", "l", "e", "=", "\"">>)

renderAutoLink(n, e, cfg) ==
  IF ~e THEN Done(<<>>, WalkContinue)
  ELSE
    Done(AHrefOpen
           \o (IF n.AutoLinkType = AutoLinkEmail /\ ~HasPrefix(ToLower(n.Value), Mailto)
               THEN Mailto ELSE <<>>)
           \o EscapeHTML(URLEscape(n.Value, FALSE))
           \o Str(<<"\"", ">">>)
           \o EscapeHTML(n.Value)
           \o Str(<<"<", "/", "a", ">">>),
         WalkContinue)

\* The loop of renderCodeSpan over the Text children from the k-th on;
\* n.children holds the segment values of the children.
RECURSIVE codeSpanChildren(_, _)
codeSpanChildren(children, k) ==
  IF k > Len(children) THEN <<>>
  ELSE
    LET value == children[k] IN
    (IF HasSuffix(value, <<NL>>)
     THEN RawWrite(Slice(value, 0, Len(value) - 1))
            \o (IF k # Len(children) THEN RawWrite(Str(<<" ">>)) ELSE <<>>)
     ELSE RawWrite(value))
    \o codeSpanChildren(children, k + 1)

renderCodeSpan(n, e, cfg) ==
  IF e
  THEN Done(Str(<<"<", "c", "o", "d", "e", ">">>) \o codeSpanChildren(n.children, 1),
            WalkSkipChildren)
  ELSE Done(Str(<<"<", "/", "c", "o", "d", "e", ">">>), WalkContinue)

renderEmphasis(n, e, cfg) ==
  LET tag == IF n.Level = 2 THEN Str(<<"s", "t", "r", "o", "n", "g">>)
             ELSE Str(<<"e", "m">>)
  IN  IF e THEN Done(Str(<<"<">>) \o tag \o Str(<<">">>), WalkContinue)
      ELSE Done(Str(<<"<", "/">>) \o tag \o Str(<<">">>), WalkContinue)

\* The title attribute of renderLink and renderImage, the bytes w being
\* written before it: tw is what r.Writer.Write(w, n.Title) wrote and whether
\* it panicked, close the bytes that end the tag and st the status returned.
titleAndClose(w, tw, close, st) ==
  IF tw.fault THEN Panicked(w \o TitleOpen \o tw.out)
  ELSE Done(w \o TitleOpen \o tw.out \o Str(<<"\"">>) \o close, st)

renderLink(n, e, cfg) ==
  IF e THEN
    IF n.hasTitle
    THEN titleAndClose(AHrefOpen \o EscapeHTML(URLEscape(n.Destination, TRUE))
                         \o Str(<<"\"">>),
                       Write(n.Title), Str(<<">">>), WalkContinue)
    ELSE Done(AHrefOpen \o EscapeHTML(URLEscape(n.Destination, TRUE))
                \o Str(<<"\"">>) \o Str(<<">">>),
              WalkContinue)
  ELSE Done(Str(<<"<", "/", "a", ">">>), WalkContinue)

\* The bytes renderImage writes up to the end of the alt attribute; n.altText
\* is n.Text(source), the flattened text of the subtree.
imgUpToAlt(n) ==
  Str(<<"<", "i", "m", "g", " ", "s", "r", "c", "=", "\"">>)
    \o EscapeHTML(URLEscape(n.Destination, TRUE))
    \o Str(<<"\"", " ", "a", "l", "t", "=", "\"">>)
    \o n.altText \o Str(<<"\"">>)

\* The end of the img tag.
imgClose(cfg) == IF cfg.XHTML THEN Str(<<" ", "/", ">">>) ELSE Str(<<">">>)

renderImage(n, e, cfg) ==
  IF ~e THEN Done(<<>>, WalkContinue)
  ELSE
    IF n.hasTitle
    THEN titleAndClose(imgUpToAlt(n), Write(n.Title), imgClose(cfg), WalkSkipChildren)
    ELSE Done(imgUpToAlt(n) \o imgClose(cfg), WalkSkipChildren)

renderRawHTML(n, e, cfg) == Done(<<>>, WalkContinue)

BrTag(cfg) ==
  IF cfg.XHTML THEN Str(<<"<", "b", "r", " ", "/", ">">>) \o <<NL>>
  ELSE Str(<<"<", "b", "r", ">">>) \o <<NL>>

\* renderText from r.Writer.Write(w, segment.Value(source)) on, tw being
\* what that call wrote and whether it panicked.
textAfterWrite(n, cfg, tw) ==
  IF tw.fault THEN Panicked(tw.out)
  ELSE IF n.hard \/ (n.soft /\ cfg.SoftLineBreak)
  THEN Done(tw.out \o BrTag(cfg), WalkContinue)
  ELSE IF n.soft THEN Done(tw.out \o <<NL>>, WalkContinue)
  ELSE Done(tw.out, WalkContinue)

renderText(n, e, cfg) ==
  IF ~e THEN Done(<<>>, WalkContinue)
  ELSE IF n.raw THEN Done(n.Segment, WalkContinue)
  ELSE textAfterWrite(n, cfg, Write(n.Segment))

\* What Render returns for a kind of its switch: the render function's
\* result and a nil error (no value is returned when the function panicked).
Returned(r) ==
  [out |-> r.out, status |-> r.status, fault |-> r.fault,
   err |-> IF r.fault THEN "none" ELSE NoError]

\* Render whose switch lacks the case of RawHTML.
RenderWithoutRawHTMLCase(n, e, cfg) ==
  CASE n.kind = "Document" -> Returned(renderDocument(n, e, cfg))
    [] n.kind = "Heading" -> Returned(renderHeading(n, e, cfg))
    [] n.kind = "Blockquote" -> Returned(renderBlockquote(n, e, cfg))
    [] n.kind = "CodeBlock" -> Returned(renderCodeBlock(n, e, cfg))
    [] n.kind = "FencedCodeBlock" -> Returned(renderFencedCodeBlock(n, e, cfg))
    [] n.kind = "HTMLBlock" -> Returned(renderHTMLBlock(n, e, cfg))
    [] n.kind = "List" -> Returned(renderList(n, e, cfg))
    [] n.kind = "ListItem" -> Returned(renderListItem(n, e, cfg))
    [] n.kind = "Paragraph" -> Returned(renderParagraph(n, e, cfg))
    [] n.kind = "TextBlock" -> Returned(renderTextBlock(n, e, cfg))
    [] n.kind = "ThemanticBreak" -> Returned(renderThemanticBreak(n, e, cfg))
    [] n.kind = "AutoLink" -> Returned(renderAutoLink(n, e, cfg))
    [] n.kind = "CodeSpan" -> Returned(renderCodeSpan(n, e, cfg))
    [] n.kind = "Emphasis" -> Returned(renderEmphasis(n, e, cfg))
    [] n.kind = "Image" -> Returned(renderImage(n, e, cfg))
    [] n.kind = "Link" -> Returned(renderLink(n, e, cfg))
    [] n.kind = "Text" -> Returned(renderText(n, e, cfg))
    [] OTHER -> [out |-> <<>>, status |-> WalkContinue, fault |-> FALSE,
                 err |-> NotSupported]

\* Renderer.Render: the type switch over the node's kind.
Render(n, e, cfg) ==
  CASE n.kind = "Document" -> Returned(renderDocument(n, e, cfg))
    [] n.kind = "Heading" -> Returned(renderHeading(n, e, cfg))
    [] n.kind = "Blockquote" -> Returned(renderBlockquote(n, e, cfg))
    [] n.kind = "CodeBlock" -> Returned(renderCodeBlock(n, e, cfg))
    [] n.kind = "FencedCodeBlock" -> Returned(renderFencedCodeBlock(n, e, cfg))
    [] n.kind = "HTMLBlock" -> Returned(renderHTMLBlock(n, e, cfg))
    [] n.kind = "List" -> Returned(renderList(n, e, cfg))
    [] n.kind = "ListItem" -> Returned(renderListItem(n, e, cfg))
    [] n.kind = "Paragraph" -> Returned(renderParagraph(n, e, cfg))
    [] n.kind = "TextBlock" -> Returned(renderTextBlock(n, e, cfg))
    [] n.kind = "ThemanticBreak" -> Returned(renderThemanticBreak(n, e, cfg))
    [] n.kind = "AutoLink" -> Returned(renderAutoLink(n, e, cfg))
    [] n.kind = "CodeSpan" -> Returned(renderCodeSpan(n, e, cfg))
    [] n.kind = "Emphasis" -> Returned(renderEmphasis(n, e, cfg))
    [] n.kind = "Image" -> Returned(renderImage(n, e, cfg))
    [] n.kind = "Link" -> Returned(renderLink(n, e, cfg))
    [] n.kind = "RawHTML" -> Returned(renderRawHTML(n, e, cfg))
    [] n.kind = "Text" -> Returned(renderText(n, e, cfg))
    [] OTHER -> [out |-> <<>>, status |-> WalkContinue, fault |-> FALSE,
                 err |-> NotSupported]

\* NewConfig: the defaults (the Writer is DefaultWriter throughout).
NewConfig == [SoftLineBreak |-> FALSE, XHTML |-> FALSE]

\* The option names of Config.SetOption that carry a bool.
OptionNames == {"SoftLineBreak", "XHTML"}

-----------------------------------------------------------------------------
(* Inputs *)

\* The longest byte string handed to RawWrite.
MaxRawLen == 4
\* The most pieces of a text handed to Write.
MaxPieces == 4
\* The most hexadecimal digits of a numeric reference handed to Write.
MaxHexDigits == 9
\* The most decimal digits of a numeric reference handed to Write.
MaxDecDigits == 8

\* All sequences over A of length at most k, and of length 1 to k.
SeqsUpTo(A, k) == UNION {[1..m -> A] : m \in 0..k}
NonEmptySeqsUpTo(A, k) == UNION {[1..m -> A] : m \in 1..k}

\* Bytes of RawWrite's inputs: the four metacharacters, a letter, and the
\* ends of the byte range.
RawAlphabet == {Ch("\""), Ch("&"), Ch("<"), Ch(">"), Ch("a"), 0, 255}

\* The byte strings of at most k bytes handed to RawWrite.
RawInputs(k) == SeqsUpTo(RawAlphabet, k)

\* The pieces of the texts handed to Write.
Pieces ==
  { Str(<<"&">>), Str(<<"#">>), Str(<<";">>), Str(<<"\\">>), Str(<<"*">>),
    Str(<<"<">>), Str(<<"a">>), Str(<<"x">>), Str(<<"8">>),
    Str(<<"a", "m", "p">>), Str(<<"q", "u", "o", "t">>) }

\* The texts of at most k pieces.
PieceTexts(k) == {Concat(ps) : ps \in SeqsUpTo(Pieces, k)}

\* The digits of the numeric references handed to Write.
HexDigitsUsed == {Ch("0"), Ch("2"), Ch("D")}
DecDigitsUsed == {Ch("0"), Ch("3"), Ch("8")}

\* The references &#x or &#X, 1 to k hexadecimal digits, ";".
HexRefs(k) ==
  {Str(<<"&", "#">>) \o <<x>> \o h \o Str(<<";">>) :
     x \in {Ch("x"), Ch("X")}, h \in NonEmptySeqsUpTo(HexDigitsUsed, k)}

\* The references &#, 1 to k decimal digits, ";".
DecRefs(k) ==
  {Str(<<"&", "#">>) \o d \o Str(<<";">>) : d \in NonEmptySeqsUpTo(DecDigitsUsed, k)}

\* Node kinds of the renderer's switch and kinds it does not know (nodes of
\* extensions).
SwitchKinds ==
  { "Document", "Heading", "Blockquote", "CodeBlock", "FencedCodeBlock", "HTMLBlock",
    "List", "ListItem", "Paragraph", "TextBlock", "ThemanticBreak", "AutoLink",
    "CodeSpan", "Emphasis", "Image", "Link", "RawHTML", "Text" }
ForeignKinds == {"Table", "Strikethrough", "TaskCheckBox"}

\* A node with every attribute at its zero value.
Blank ==
  [ kind |-> "Document", Level |-> 1, hasID |-> FALSE, ID |-> <<>>, Lines |-> <<>>,
    hasInfo |-> FALSE, Info |-> <<>>, hasClosure |-> FALSE, ClosureLine |-> <<>>,
    ordered |-> FALSE, Start |-> 1, firstChild |-> "nil", hasNextSibling |-> FALSE,
    AutoLinkType |-> AutoLinkURL, Value |-> <<>>, children |-> <<>>,
    Destination |-> <<>>, hasTitle |-> FALSE, Title |-> <<>>, altText |-> <<>>,
    Segment |-> <<>>, hard |-> FALSE, soft |-> FALSE, raw |-> FALSE ]

\* Segment values of Text nodes, titles and code span children.
SampleTexts ==
  { <<>>, Str(<<"a">>), Str(<<"a", "<", "b">>), Str(<<"&", "a", "m", "p", ";">>),
    Str(<<"\\", "*">>), Str(<<"a", "&", "#">>) }
\* Info strings of fenced code blocks.
SampleInfos ==
  { <<>>, Str(<<"g", "o">>), Str(<<"g", "o", " ", "e", "x", "t", "r", "a">>),
    Str(<<"a", "\\", "*", "b">>), Str(<<"c", "&", "a", "m", "p", ";", "d", " ", "x">>),
    Str(<<"c", "<", "d">>) }
\* Line lists of code blocks and HTML blocks.
SampleLines ==
  { <<>>, <<Str(<<"a", "<", "b">>) \o <<NL>>>>,
    <<Str(<<"x">>) \o <<NL>>, Str(<<"y", "&", "z">>) \o <<NL>>>> }
\* Link and image destinations, autolink values.
SampleDestinations == {Str(<<"a", " ", "b", ".", "p", "n", "g">>), Str(<<"/", "x">>)}
SampleAutoLinks ==
  { Str(<<"a", "@", "b", ".", "c">>), Str(<<"M", "a", "i", "l", "t", "o", ":", "a", "@", "b">>),
    Str(<<"h", ":", "/", "/", "x">>) }

Nodes ==
  {[Blank EXCEPT !.kind = k] :
     k \in {"Document", "Blockquote", "Paragraph", "ThemanticBreak", "RawHTML"}
           \cup ForeignKinds}
  \cup {[Blank EXCEPT !.kind = "Heading", !.Level = l, !.hasID = h,
                      !.ID = IF h THEN Str(<<"i", "n", "t", "r", "o">>) ELSE <<>>] :
          l \in 1..6, h \in BOOLEAN}
  \cup {[Blank EXCEPT !.kind = "CodeBlock", !.Lines = ls] : ls \in SampleLines}
  \cup {[Blank EXCEPT !.kind = "FencedCodeBlock", !.Lines = ls, !.hasInfo = TRUE,
                      !.Info = i] : ls \in SampleLines, i \in SampleInfos}
  \cup {[Blank EXCEPT !.kind = "FencedCodeBlock", !.Lines = ls] : ls \in SampleLines}
  \cup {[Blank EXCEPT !.kind = "HTMLBlock", !.Lines = ls, !.hasClosure = c,
                      !.ClosureLine = IF c THEN Str(<<"-", "-", ">">>) \o <<NL>> ELSE <<>>] :
          ls \in SampleLines, c \in BOOLEAN}
  \cup {[Blank EXCEPT !.kind = "List", !.ordered = o, !.Start = s] :
          o \in BOOLEAN, s \in {0, 1, 3, 12}}
  \cup {[Blank EXCEPT !.kind = k, !.firstChild = fc, !.hasNextSibling = ns] :
          k \in {"ListItem", "TextBlock"}, fc \in SwitchKinds \cup {"nil"},
          ns \in BOOLEAN}
  \cup {[Blank EXCEPT !.kind = "AutoLink", !.AutoLinkType = ty, !.Value = v] :
          ty \in {AutoLinkEmail, AutoLinkURL}, v \in SampleAutoLinks}
  \cup {[Blank EXCEPT !.kind = "CodeSpan", !.children = cs] :
          cs \in SeqsUpTo({Str(<<"a", "<">>), Str(<<"b">>) \o <<NL>>}, 2)}
  \cup {[Blank EXCEPT !.kind = "Emphasis", !.Level = l] : l \in {1, 2}}
  \cup {[Blank EXCEPT !.kind = k, !.Destination = d, !.hasTitle = TRUE, !.Title = ti,
                      !.altText = a] :
          k \in {"Link", "Image"}, d \in SampleDestinations, ti \in SampleTexts,
          a \in {<<>>, Str(<<"a", "l", "t">>)}}
  \cup {[Blank EXCEPT !.kind = k, !.Destination = d] :
          k \in {"Link", "Image"}, d \in SampleDestinations}
  \cup {[Blank EXCEPT !.kind = "Text", !.Segment = s, !.hard = h, !.soft = sf, !.raw = rw] :
          s \in SampleTexts, h \in BOOLEAN, sf \in BOOLEAN, rw \in BOOLEAN}

-----------------------------------------------------------------------------
(* The state machine: a renderer is made (NewRenderer), its options are set, *)
(* and one call is made on it or on its Writer with a fresh sink; the state  *)
(* holds the call, what it wrote and what it returned.  The Writer has no    *)
(* fields and Render reads only the Config, so a call does not depend on the *)
(* calls before it.                                                          *)

\* The renderer is made and no call has been made on it yet.
Fresh == op \in {"NewRenderer", "SetOption"}

Init ==
  /\ op = "NewRenderer"
  /\ config = NewConfig
  /\ source = <<>>
  /\ node = Blank
  /\ entering = FALSE
  /\ out = <<>>
  /\ fault = FALSE
  /\ status = "none"
  /\ err = "none"

\* Config.SetOption for SoftLineBreak and XHTML (the Writer stays the
\* DefaultWriter).
SetOption(name, value) ==
  /\ Fresh
  /\ op' = "SetOption"
  /\ config' = [config EXCEPT ![name] = value]
  /\ source' = <<>>
  /\ out' = <<>>
  /\ fault' = FALSE
  /\ status' = "none"
  /\ err' = "none"
  /\ UNCHANGED <<node, entering>>

\* DefaultWriter.RawWrite(writer, s) on an empty sink.
CallRawWrite(s) ==
  /\ Fresh
  /\ op' = "RawWrite"
  /\ source' = s
  /\ out' = RawWrite(s)
  /\ fault' = FALSE
  /\ status' = "none"
  /\ err' = "none"
  /\ UNCHANGED <<node, entering, config>>

\* DefaultWriter.Write(writer, s) on an empty sink.
CallWrite(s) ==
  \E r \in {Write(s)} :
  /\ Fresh
  /\ op' = "Write"
  /\ source' = s
  /\ out' = r.out
  /\ fault' = r.fault
  /\ status' = "none"
  /\ err' = "none"
  /\ UNCHANGED <<node, entering, config>>

\* Renderer.Render(writer, source, n, e) on an empty sink.
CallRender(n, e) ==
  \E r \in {Render(n, e, config)} :
  /\ Fresh
  /\ op' = "Render"
  /\ node' = n
  /\ entering' = e
  /\ source' = <<>>
  /\ out' = r.out
  /\ fault' = r.fault
  /\ status' = r.status
  /\ err' = r.err
  /\ UNCHANGED config

RawWriteNext == Fresh /\ \E s \in RawInputs(MaxRawLen) : CallRawWrite(s)
WriteNext ==
  Fresh /\ \E s \in PieceTexts(MaxPieces) \cup HexRefs(MaxHexDigits) \cup DecRefs(MaxDecDigits) :
    CallWrite(s)
RenderNext ==
  \/ \E name \in OptionNames, value \in BOOLEAN : SetOption(name, value)
  \/ Fresh /\ \E n \in Nodes, e \in BOOLEAN : CallRender(n, e)

Next == RawWriteNext \/ WriteNext \/ RenderNext

SpecRawWrite == Init /\ [][RawWriteNext]_vars
SpecWrite == Init /\ [][WriteNext]_vars
SpecRender == Init /\ [][RenderNext]_vars
Spec == Init /\ [][Next]_vars

-----------------------------------------------------------------------------
(* What the specification says of the Text Engine, stated on its own terms *)

\* The replacement the specification gives for a byte: the four
\* metacharacters have one, every other byte stands for itself.
Replacement(b) ==
  IF b = Ch("\"") THEN Str(<<"&", "q", "u", "o", "t", ";">>)
  ELSE IF b = Ch("&") THEN Str(<<"&", "a", "m", "p", ";">>)
  ELSE IF b = Ch("<") THEN Str(<<"&", "l", "t", ";">>)
  ELSE IF b = Ch(">") THEN Str(<<"&", "g", "t", ";">>)
  ELSE <<b>>

\* The left-to-right concatenation of the replacements of the bytes of s.
RECURSIVE EscapeBytes(_)
EscapeBytes(s) ==
  IF s = <<>> THEN <<>> ELSE Replacement(Head(s)) \o EscapeBytes(Tail(s))

\* The escaped text o with each of the four replacements put back to its
\* byte; an "&" that starts none of them stays.
RECURSIVE Unescape(_)
Unescape(o) ==
  IF o = <<>> THEN <<>>
  ELSE IF \E b \in {Ch("\""), Ch("&"), Ch("<"), Ch(">")} : HasPrefix(o, Replacement(b))
  THEN LET b == CHOOSE c \in {Ch("\""), Ch("&"), Ch("<"), Ch(">")} :
                  HasPrefix(o, Replacement(c))
       IN  <<b>> \o Unescape(SubSeq(o, Len(Replacement(b)) + 1, Len(o)))
  ELSE <<Head(o)>> \o Unescape(Tail(o))

\* Every "&" of o starts one of the four replacements.
EveryAmpStartsReplacement(o) ==
  \A i \in 1..Len(o) :
    o[i] = Ch("&") =>
      \E b \in {Ch("\""), Ch("&"), Ch("<"), Ch(">")} :
        HasPrefix(SubSeq(o, i, Len(o)), Replacement(b))

\* The UTF-8 bytes of the replacement character U+FFFD.
ReplacementCharacter == <<239, 191, 189>>

\* The value of the digits ds in the given base, capped just above the
\* largest code point.
RECURSIVE NumberOf(_, _, _)
NumberOf(ds, base, acc) ==
  IF ds = <<>> THEN acc
  ELSE LET v == acc * base + DigitValue(Head(ds)) IN
       NumberOf(Tail(ds), base, IF v > 1114112 THEN 1114112 ELSE v)

ValidCodePoint(v) == v > 0 /\ v <= 1114111 /\ ~(v >= 55296 /\ v <= 57343)

\* What a reference to code point v stands for in the output.
CodePointText(v) ==
  IF ~ValidCodePoint(v) THEN ReplacementCharacter
  ELSE IF v < 128 THEN Replacement(v)
  ELSE WriteRune(v)

AllIn(ds, class) == \A i \in 1..Len(ds) : ds[i] \in class

\* The body b of a reference (the bytes between "&" and ";") is a
\* hexadecimal one, a decimal one of 1 to 7 digits, a known entity name.
IsHexBody(b) ==
  /\ Len(b) >= 3 /\ b[1] = Ch("#") /\ b[2] \in {Ch("x"), Ch("X")}
  /\ AllIn(SubSeq(b, 3, Len(b)), HexDecimalBytes)
IsDecBody(b) ==
  /\ Len(b) >= 2 /\ Len(b) <= 8 /\ b[1] = Ch("#")
  /\ AllIn(SubSeq(b, 2, Len(b)), NumericBytes)
IsNameBody(b) ==
  Len(b) >= 1 /\ AllIn(b, AlphaNumericBytes) /\ LookUpHTML5EntityByName(b).ok

\* The index of the ";" that ends the well-formed, recognised reference
\* starting at the "&" at index p of s (1-based); 0 when there is none.
RefEnd(s, p) ==
  LET ends == {e \in (p + 1)..Len(s) :
                 /\ s[e] = Ch(";")
                 /\ \A k \in (p + 1)..(e - 1) : s[k] # Ch(";")
                 /\ LET b == SubSeq(s, p + 1, e - 1) IN
                    IsHexBody(b) \/ IsDecBody(b) \/ IsNameBody(b)}
  IN  IF ends = {} THEN 0 ELSE CHOOSE e \in ends : TRUE

\* What the reference with body b stands for.
RefText(b) ==
  IF IsHexBody(b) THEN CodePointText(NumberOf(SubSeq(b, 3, Len(b)), 16, 0))
  ELSE IF IsDecBody(b) THEN CodePointText(NumberOf(SubSeq(b, 2, Len(b)), 10, 0))
  ELSE EscapeBytes(LookUpHTML5EntityByName(b).Characters)

\* The interpreting emission of s from index p on: a backslash before a
\* punctuation byte is dropped and the byte is escaped, a reference is
\* decoded, every other byte is escaped.
RECURSIVE Interpret(_, _)
Interpret(s, p) ==
  IF p > Len(s) THEN <<>>
  ELSE IF s[p] = Ch("\\") /\ p < Len(s) /\ IsPunct(s[p + 1])
  THEN Replacement(s[p + 1]) \o Interpret(s, p + 2)
  ELSE IF s[p] = Ch("&") /\ RefEnd(s, p) # 0
  THEN RefText(SubSeq(s, p + 1, RefEnd(s, p) - 1)) \o Interpret(s, RefEnd(s, p) + 1)
  ELSE Replacement(s[p]) \o Interpret(s, p + 1)

HasBackslash(s) == \E i \in 1..Len(s) : s[i] = Ch("\\")
HasReference(s) == \E i \in 1..Len(s) : s[i] = Ch("&") /\ RefEnd(s, i) # 0

\* s is exactly one numeric reference.
IsNumericRef(s) ==
  /\ Len(s) >= 4 /\ s[1] = Ch("&") /\ s[Len(s)] = Ch(";")
  /\ LET b == SubSeq(s, 2, Len(s) - 1) IN IsHexBody(b) \/ IsDecBody(b)
IsDecimalRef(s) ==
  /\ Len(s) >= 4 /\ s[1] = Ch("&") /\ s[Len(s)] = Ch(";")
  /\ IsDecBody(SubSeq(s, 2, Len(s) - 1))

-----------------------------------------------------------------------------
(* Claims about the Text Engine *)

\* C1: Write completes without a fault on every input, and where the input
\* has no backslash and no "&" that begins a well-formed, recognised
\* reference, the output is the input with only the metacharacters escaped.
C1_WriteNeverFaults ==
  op = "Write" =>
    /\ fault = FALSE
    /\ (~HasBackslash(source) /\ ~HasReference(source)) => out = EscapeBytes(source)

\* C2: a well-formed numeric reference whose value is no valid code point
\* makes Write emit U+FFFD and nothing else.
C2_InvalidCodePointIsReplaced ==
  (op = "Write" /\ IsNumericRef(source)
     /\ RefText(SubSeq(source, 2, Len(source) - 1)) = ReplacementCharacter)
    => (fault = FALSE /\ out = ReplacementCharacter)

\* C3: a decimal reference of 1 to 7 digits, leading zeros included, is read
\* in base 10 and Write emits the character of that code point.
C3_DecimalReferenceIsBaseTen ==
  (op = "Write" /\ IsDecimalRef(source))
    => (fault = FALSE
        /\ out = CodePointText(NumberOf(SubSeq(source, 3, Len(source) - 1), 10, 0)))

\* C4: RawWrite(s) is the concatenation of the replacements of the bytes of
\* s; so the output has no quote, "<" or ">", every "&" of it starts a
\* replacement, putting the replacements back gives s, and it is no shorter
\* than s.
C4_RawWriteEscapesEachByte ==
  op = "RawWrite" =>
    /\ fault = FALSE
    /\ out = EscapeBytes(source)
    /\ \A i \in 1..Len(out) : out[i] \notin {Ch("\""), Ch("<"), Ch(">")}
    /\ EveryAmpStartsReplacement(out)
    /\ Unescape(out) = source
    /\ Len(out) >= Len(source)

\* C4 witness: RawWrite has escaped a text with a metacharacter inside and a
\* trailing run of other bytes.
C4_Witness ==
  /\ op = "RawWrite"
  /\ source = <<Ch("a"), Ch("<"), 255, Ch("a")>>
  /\ out = <<Ch("a")>> \o Str(<<"&", "l", "t", ";">>) \o <<255, Ch("a")>>

\* C5: in every text with a backslash, Write completes and a backslash before
\* a punctuation byte is dropped with that byte emitted escaped (an "&" among
\* them starting no reference), every other backslash is emitted unchanged,
\* and the byte after an escape pair is not treated as escaped.
C5_BackslashEscapes ==
  (op = "Write" /\ HasBackslash(source))
    => (fault = FALSE /\ out = Interpret(source, 1))

\* C5, of the calls that return: whenever Write returns, its output is the
\* interpreting emission of the text, so the escape pairs are handled as C5
\* says on every text on which Write does not panic.
C5_EscapesWhenWriteReturns ==
  (op = "Write" /\ fault = FALSE /\ HasBackslash(source)) => out = Interpret(source, 1)

-----------------------------------------------------------------------------
(* Claims about the Tree Renderer *)

\* The closed set of 18 node kinds (ThemanticBreak is the source's name of
\* the thematic break).
ClosedSet ==
  { "Document", "Heading", "Blockquote", "CodeBlock", "FencedCodeBlock", "HTMLBlock",
    "List", "ListItem", "Paragraph", "TextBlock", "ThemanticBreak",
    "AutoLink", "CodeSpan", "Emphasis", "Image", "Link", "RawHTML", "Text" }

\* The kinds that emit the text of their own subtree.
SubtreeOwners == {"AutoLink", "Image", "CodeSpan"}

\* C6: of the calls that return on a kind of the closed set, the entering
\* call on an AutoLink, an Image or a CodeSpan returns SkipChildren, every
\* other call returns Continue, and none returns Stop.
C6_SubtreeOwnersSkipChildren ==
  (op = "Render" /\ fault = FALSE /\ node.kind \in ClosedSet) =>
    /\ (entering /\ node.kind \in SubtreeOwners) => status = WalkSkipChildren
    /\ ~(entering /\ node.kind \in SubtreeOwners) => status = WalkContinue
    /\ status # WalkStop

\* C7: Render returns the unsupported-node-kind error exactly for the kinds
\* outside the closed set, writing nothing then; for a kind of the closed
\* set, entering or exiting, a call that returns returns no error.
C7_NotSupportedOnlyOutsideClosedSet ==
  op = "Render" =>
    /\ (err = NotSupported) <=> (node.kind \notin ClosedSet)
    /\ node.kind \notin ClosedSet => (out = <<>> /\ fault = FALSE)
    /\ (node.kind \in ClosedSet /\ fault = FALSE) => err = NoError

\* C7 witness: Render was called on a node of a kind outside the closed set
\* and returned the error with nothing written.
C7_Witness ==
  /\ op = "Render"
  /\ node.kind = "Table"
  /\ entering
  /\ err = NotSupported
  /\ out = <<>>

\* The line-break tag as the specification gives it.
LineBreakTag(xhtml) ==
  IF xhtml THEN Str(<<"<", "b", "r", " ", "/", ">">>) \o <<NL>>
  ELSE Str(<<"<", "b", "r", ">">>) \o <<NL>>

\* C8: of the calls on a Text node that return, the entering call on a node
\* with the hard-line-break flag ends its output with the line-break tag,
\* whatever the other flags (the raw flag included) and the Config; a soft
\* break alone, on a node that is not raw, ends it with the tag in
\* soft-line-break mode and with a bare newline otherwise; the exiting call
\* writes nothing.
C8_HardBreakAlwaysTag ==
  (op = "Render" /\ node.kind = "Text" /\ fault = FALSE) =>
    /\ (entering /\ node.hard) => HasSuffix(out, LineBreakTag(config.XHTML))
    /\ (entering /\ ~node.raw /\ ~node.hard /\ node.soft /\ config.SoftLineBreak)
         => HasSuffix(out, LineBreakTag(config.XHTML))
    /\ (entering /\ ~node.raw /\ ~node.hard /\ node.soft /\ ~config.SoftLineBreak)
         => (HasSuffix(out, <<NL>>) /\ ~HasSuffix(out, LineBreakTag(config.XHTML)))
    /\ ~entering => out = <<>>

LiOpen == Str(<<"<", "l", "i", ">">>)
LiClose == Str(<<"<", "/", "l", "i", ">">>) \o <<NL>>

\* C9 as stated: entering a ListItem writes <li> and then a newline unless
\* the first child is a TextBlock, so also for an item without children;
\* exiting writes </li> and a newline.
C9_NewlineUnlessTextBlock ==
  (op = "Render" /\ node.kind = "ListItem") =>
    /\ entering => out = LiOpen \o (IF node.firstChild = "TextBlock" THEN <<>> ELSE <<NL>>)
    /\ ~entering => out = LiClose

\* C9 as amended: entering a ListItem writes <li>, and then a newline exactly
\* when the item has a first child and that child is no TextBlock; an item
\* without children gets no newline.  Exiting writes </li> and a newline.
C9_NewlineWhenFirstChildNotTextBlock ==
  (op = "Render" /\ node.kind = "ListItem") =>
    /\ fault = FALSE /\ err = NoError /\ status = WalkContinue
    /\ entering =>
         out = LiOpen \o (IF node.firstChild \notin {"nil", "TextBlock"} THEN <<NL>> ELSE <<>>)
    /\ ~entering => out = LiClose

\* C9 witness: a ListItem without children was entered and only <li> was
\* written.
C9_Witness ==
  /\ op = "Render"
  /\ node.kind = "ListItem"
  /\ entering
  /\ node.firstChild = "nil"
  /\ out = LiOpen

\* The bytes of info before its first space.
InfoToken(info) ==
  LET spaces == {i \in 1..Len(info) : info[i] = Ch(" ")} IN
  IF spaces = {} THEN info
  ELSE SubSeq(info, 1, (CHOOSE i \in spaces : \A j \in spaces : i <= j) - 1)

\* C10: of the entering calls on a FencedCodeBlock that return, one with an
\* info string writes <pre><code class="language-X"> with X the info token
\* through the raw emission path, one without writes <pre><code>, and the
\* lines follow through the raw emission path.
C10_InfoTokenThroughRawPath ==
  (op = "Render" /\ node.kind = "FencedCodeBlock" /\ entering /\ fault = FALSE) =>
    out = Str(<<"<", "p", "r", "e", ">", "<", "c", "o", "d", "e">>)
            \o (IF node.hasInfo
                THEN Str(<<" ", "c", "l", "a", "s", "s", "=", "\"",
                           "l", "a", "n", "g", "u", "a", "g", "e", "-">>)
                       \o EscapeBytes(InfoToken(node.Info)) \o Str(<<"\"">>)
                ELSE <<>>)
            \o Str(<<">">>)
            \o EscapeBytes(Concat(node.Lines))

=============================================================================
